---------------------------- MODULE Spec2Model ----------------------------
(***************************************************************************)
(* A model of mpl-special: the colour / caption cyclers (plotting.py,      *)
(* format.py), the figure-size calculator (figsize.py), the multiple-of-   *)
(* unit tick formatter and the label embedder (format.py).                 *)
(*                                                                         *)
(* Python floats are modelled as exact rationals n / d (d > 0); pixel      *)
(* coordinates are integers.  Python exceptions are modelled by an error   *)
(* field that names the exception type the statement raises.               *)
(***************************************************************************)
EXTENDS Integers, Sequences, FiniteSets, TLC

VARIABLES
    cyc,      \* the cycler object under test (Colors or AlphabeticalLabels)
    cret,     \* value returned by the most recent cycler call
    cop,      \* name of the most recent cycler call
    cerr,     \* exception raised by the most recent cycler call
    chist,    \* history of the calls made on the cycler
    fig_in,   \* arguments of the most recent set_figsize call
    fig_out,  \* its result
    fmt_in,   \* arguments of the most recent formatter call
    fmt_out,  \* its result
    axis,     \* the matplotlib Axes the label embedder works on
    eop,      \* the most recent embedder call and its arguments
    eerr,     \* exception raised by the most recent embedder call
    epre,     \* the axis as it was before the most recent embedder call
    lab,      \* embed_labels: the figure, its timer, handlers and update passes
    ann,      \* the most recent annotate_points / draw_bbox call and its effect
    sel,      \* the most recent call that takes an axis selector, and its result
    cool      \* the callable add_cooldown made, the clock, and the calls made to it

cyclerVars == <<cyc, cret, cop, cerr, chist>>
figVars    == <<fig_in, fig_out>>
fmtVars    == <<fmt_in, fmt_out>>
embedVars  == <<axis, eop, eerr, epre>>
labelVars  == <<lab>>
annVars    == <<ann>>
selVars    == <<sel>>
coolVars   == <<cool>>
vars       == <<cyc, cret, cop, cerr, chist, fig_in, fig_out, fmt_in, fmt_out,
                axis, eop, eerr, epre, lab, ann, sel, cool>>

Abs(i) == IF i < 0 THEN -i ELSE i

(***************************************************************************)
(*                              Cyclers                                    *)
(***************************************************************************)

\* the number of get_color / get_label calls one behaviour makes
MaxCalls == 10

\* setup.COLORS; the RGB tuple (1, 0.5, 0) is written "orange"
COLORS == <<"blue", "orange", "green", "darkred", "cyan", "orangered",
            "purple", "lime">>

\* list(plt.get_cmap("tab10").colors): ten colours
TAB10 == <<"tab0", "tab1", "tab2", "tab3", "tab4", "tab5", "tab6", "tab7",
           "tab8", "tab9">>

\* the default captions of AlphabeticalLabels
ABC_LABELS == <<"(a)", "(b)", "(c)", "(d)", "(e)", "(f)", "(g)", "(h)",
                "(i)", "(j)", "(k)", "(l)">>

\* the `colors` / `abc_labels` constructor arguments that are tried
NoneArg == <<"None">>
DefaultArg == <<"default">>
ExplicitSeqs == { <<>>, <<"k">>, <<"r", "g", "b">> }
ColorArgs == {NoneArg, DefaultArg} \cup ExplicitSeqs
LabelArgs == {NoneArg} \cup ExplicitSeqs
CtrArgs == {0, 1}
Incs == {-1, 0, 1, 2}

\* Colors.__init__
Colors_init(colors, ctr) ==
    LET chosen == IF colors = NoneArg THEN COLORS
                  ELSE IF colors = DefaultArg THEN TAB10
                  ELSE colors
    IN [cls |-> "Colors", ctr |-> ctr, colors |-> chosen,
        clength |-> Len(chosen)]

\* AlphabeticalLabels.__init__
AlphabeticalLabels_init(abc_labels, ctr) ==
    LET chosen == IF abc_labels = NoneArg THEN ABC_LABELS ELSE abc_labels
    IN [cls |-> "AlphabeticalLabels", abc_labels |-> chosen, ctr |-> ctr,
        length |-> Len(chosen)]

\* a plausible slip: the counter is advanced before the element is read
get_color_advance_first(self, inc) ==
    IF self.clength = 0
    THEN [self |-> self, ret |-> "None", err |-> "ZeroDivisionError"]
    ELSE [self |-> [self EXCEPT !.ctr = self.ctr + inc],
          ret  |-> self.colors[((self.ctr + inc) % self.clength) + 1],
          err  |-> "none"]

\* Colors.get_color: `ctr % clength` raises ZeroDivisionError when clength = 0,
\* before the counter is touched
get_color(self, inc) ==
    IF self.clength = 0
    THEN [self |-> self, ret |-> "None", err |-> "ZeroDivisionError"]
    ELSE [self |-> [self EXCEPT !.ctr = self.ctr + inc],
          ret  |-> self.colors[(self.ctr % self.clength) + 1],
          err  |-> "none"]

\* Colors.prev_color
prev_color(self) ==
    IF self.clength = 0
    THEN [self |-> self, ret |-> "None", err |-> "ZeroDivisionError"]
    ELSE [self |-> self,
          ret  |-> self.colors[((self.ctr - 1) % self.clength) + 1],
          err  |-> "none"]

\* AlphabeticalLabels.get_label
get_label(self) ==
    IF self.length = 0
    THEN [self |-> self, ret |-> "None", err |-> "ZeroDivisionError"]
    ELSE [self |-> [self EXCEPT !.ctr = self.ctr + 1],
          ret  |-> self.abc_labels[(self.ctr % self.length) + 1],
          err  |-> "none"]

\* the sequence the constructed object cycles over
SeqOf(self) == IF self.cls = "Colors" THEN self.colors ELSE self.abc_labels

NewHist(arg, self) ==
    [arg |-> arg, seq0 |-> SeqOf(self), ctr0 |-> self.ctr, ncalls |-> 0,
     allDefault |-> TRUE, lastGet |-> "None", lastInc |-> 0,
     ctrDecreased |-> FALSE]

Record(r, inc) ==
    IF r.err = "none"
    THEN [chist EXCEPT !.ncalls = @ + 1,
                       !.allDefault = @ /\ inc = 1,
                       !.lastGet = r.ret,
                       !.lastInc = inc,
                       !.ctrDecreased = @ \/ r.self.ctr < cyc.ctr]
    ELSE chist

GetColor ==
    /\ cyc.cls = "Colors"
    /\ chist.ncalls < MaxCalls
    /\ \E inc \in Incs :
         LET r == get_color(cyc, inc) IN
         /\ cyc' = r.self
         /\ cret' = r.ret
         /\ cerr' = r.err
         /\ chist' = Record(r, inc)
    /\ cop' = "get_color"
    /\ UNCHANGED <<figVars, fmtVars, embedVars, labelVars, annVars, selVars,
                 coolVars>>

PrevColor ==
    /\ cyc.cls = "Colors"
    /\ LET r == prev_color(cyc) IN
         /\ cyc' = r.self
         /\ cret' = r.ret
         /\ cerr' = r.err
    /\ cop' = "prev_color"
    /\ UNCHANGED <<chist, figVars, fmtVars, embedVars, labelVars, annVars, selVars,
                 coolVars>>

GetLabel ==
    /\ cyc.cls = "AlphabeticalLabels"
    /\ chist.ncalls < MaxCalls
    /\ LET r == get_label(cyc) IN
         /\ cyc' = r.self
         /\ cret' = r.ret
         /\ cerr' = r.err
         /\ chist' = Record(r, 1)
    /\ cop' = "get_label"
    /\ UNCHANGED <<figVars, fmtVars, embedVars, labelVars, annVars, selVars,
                 coolVars>>


(***************************************************************************)
(*                      Python numbers and strings                         *)
(***************************************************************************)

RECURSIVE GCD(_, _)
GCD(a, b) == IF b = 0 THEN a ELSE GCD(b, a % b)

\* the real number (n / d) * golden^g, in lowest terms, d > 0
Num(n, d, g) ==
    LET k == GCD(Abs(n), d) IN [n |-> n \div k, d |-> d \div k, g |-> g]

\* products cancel crosswise first, so that no intermediate value overflows
RMul(a, b) ==
    LET g1 == GCD(Abs(a.n), b.d)
        g2 == GCD(Abs(b.n), a.d)
    IN Num((a.n \div g1) * (b.n \div g2), (a.d \div g2) * (b.d \div g1),
           a.g + b.g)

RInv(a) == IF a.n < 0 THEN [n |-> -a.d, d |-> -a.n, g |-> -a.g]
           ELSE [n |-> a.d, d |-> a.n, g |-> -a.g]

RDiv(a, b) == RMul(a, RInv(b))

\* Python values: int, float, str (v counts repetitions), None, or a raised
\* exception (s names its type)
PyInt(i)      == [t |-> "int", s |-> "", v |-> Num(i, 1, 0)]
PyFloat(n, d) == [t |-> "float", s |-> "", v |-> Num(n, d, 0)]
PyStr(s)      == [t |-> "str", s |-> s, v |-> Num(1, 1, 0)]
PyNone        == [t |-> "None", s |-> "", v |-> Num(0, 1, 0)]
PyErr(e)      == [t |-> "error", s |-> e, v |-> Num(0, 1, 0)]

IsNumber(a) == a.t \in {"int", "float"}

\* Python's a * b: str * int repeats the string, str * float is a TypeError
PyMul(a, b) ==
    IF a.t = "error" THEN a
    ELSE IF b.t = "error" THEN b
    ELSE IF a.t = "str" /\ b.t = "int" THEN [a EXCEPT !.v = RMul(a.v, b.v)]
    ELSE IF a.t = "int" /\ b.t = "str" THEN [b EXCEPT !.v = RMul(a.v, b.v)]
    ELSE IF ~IsNumber(a) \/ ~IsNumber(b) THEN PyErr("TypeError")
    ELSE [t |-> IF a.t = "int" /\ b.t = "int" THEN "int" ELSE "float",
          s |-> "", v |-> RMul(a.v, b.v)]

\* Python's a / b on numbers
PyTrueDiv(a, b) ==
    IF a.t = "error" THEN a
    ELSE IF b.t = "error" THEN b
    ELSE IF ~IsNumber(a) \/ ~IsNumber(b) THEN PyErr("TypeError")
    ELSE IF b.v.n = 0 THEN PyErr("ZeroDivisionError")
    ELSE [t |-> "float", s |-> "", v |-> RDiv(a.v, b.v)]

(***************************************************************************)
(*                           figsize.set_figsize                           *)
(***************************************************************************)

\* the largest number of rows / columns of a subplot grid that is tried
MaxGrid == 3

WIDTH_PT_SCR == PyFloat(41825555, 100000)     \* 418.25555
WIDTH_PT_BMR == PyFloat(302, 1)               \* 302.0

\* inches_per_pt = 1 / 72.27
inches_per_pt == PyTrueDiv(PyInt(1), PyFloat(7227, 100))

\* golden_ratio = (5**0.5 - 1) / 2, kept symbolic: golden^1
golden_ratio == [t |-> "float", s |-> "", v |-> [n |-> 1, d |-> 1, g |-> 1]]

\* the preset table of set_figsize
width_pt_of(width) ==
    IF width = PyStr("thesis") \/ width = PyNone THEN WIDTH_PT_SCR
    ELSE IF width = PyStr("beamer") THEN WIDTH_PT_BMR
    ELSE width

\* a plausible slip: columns over rows
fig_height_in_swapped(fig_width_in, subplots) ==
    PyMul(PyMul(fig_width_in, golden_ratio),
          PyTrueDiv(PyInt(subplots[2]), PyInt(subplots[1])))

\* fig_height_in = fig_width_in * golden_ratio * (subplots[0] / subplots[1])
fig_height_in_of(fig_width_in, subplots) ==
    PyMul(PyMul(fig_width_in, golden_ratio),
          PyTrueDiv(PyInt(subplots[1]), PyInt(subplots[2])))

set_figsize(width, fraction, subplots) ==
    LET width_pt      == width_pt_of(width)
        fig_width_pt  == PyMul(width_pt, fraction)
        fig_width_in  == PyMul(fig_width_pt, inches_per_pt)
        fig_height_in == fig_height_in_of(fig_width_in, subplots)
    IN IF fig_width_in.t = "error"
       THEN [err |-> fig_width_in.s, w |-> fig_width_in, h |-> fig_width_in]
       ELSE IF fig_height_in.t = "error"
       THEN [err |-> fig_height_in.s, w |-> fig_width_in, h |-> fig_height_in]
       ELSE [err |-> "none", w |-> fig_width_in, h |-> fig_height_in]

Presets == {PyNone, PyStr("thesis"), PyStr("beamer")}
OtherStrings == {PyStr("poster"), PyStr("")}
PointWidths == {PyInt(345), PyFloat(493, 2)}
Widths == Presets \cup OtherStrings \cup PointWidths
Fractions == {PyInt(1), PyFloat(1, 1), PyFloat(3, 4), PyFloat(1, 2),
              PyFloat(1, 4)}
Grids == (1..MaxGrid) \X (1..MaxGrid)

SetFigsize ==
    /\ \E width \in Widths, fraction \in Fractions, subplots \in Grids :
        /\ fig_in' = [called |-> TRUE, width |-> width, fraction |-> fraction,
                      subplots |-> subplots]
        /\ fig_out' = set_figsize(width, fraction, subplots)
    /\ UNCHANGED <<cyclerVars, fmtVars, embedVars, labelVars, annVars, selVars,
                 coolVars>>

(***************************************************************************)
(*                        format.multiple_formatter                        *)
(***************************************************************************)

\* tick values are x = (p / q) * number with |p| <= MaxNum, 1 <= q <= MaxQ;
\* major denominators are 1 .. MaxDen
MaxDen == 6
MaxNum == 7
MaxQ == 4

\* the default `latex` argument, r'\pi'
latex_pi == "\\pi"

\* np.rint(n / d) for d > 0: round to nearest, ties to the even integer
rint(n, d) ==
    LET lo == n \div d
        r  == n % d
    IN IF 2 * r < d THEN lo
       ELSE IF 2 * r > d THEN lo + 1
       ELSE IF lo % 2 = 0 THEN lo ELSE lo + 1

\* the inner gcd: `while b: a, b = b, a % b` (Python's % has the divisor's sign)
RECURSIVE gcd(_, _)
gcd(a, b) == IF b = 0 THEN a ELSE gcd(b, a % b)

\* a plausible slip: the `num == -1` branches are forgotten
format_fraction_no_minus_one(num, den, latex) ==
    IF den = 1
    THEN IF num = 0 THEN "$0$"
         ELSE IF num = 1 THEN "$" \o latex \o "$"
         ELSE "$" \o ToString(num) \o latex \o "$"
    ELSE IF num = 1
         THEN "$\\frac{" \o latex \o "}{" \o ToString(den) \o "}$"
         ELSE IF num > 0
         THEN "$\\frac{" \o ToString(num) \o latex \o "}{"
                         \o ToString(den) \o "}$"
         ELSE "$-\\frac{" \o ToString(Abs(num)) \o latex \o "}{"
                          \o ToString(den) \o "}$"

\* the if / elif ladder of _multiple_formatter on the reduced (num, den)
format_fraction(num, den, latex) ==
    IF den = 1
    THEN IF num = 0 THEN "$0$"
         ELSE IF num = 1 THEN "$" \o latex \o "$"
         ELSE IF num = -1 THEN "$-" \o latex \o "$"
         ELSE "$" \o ToString(num) \o latex \o "$"
    ELSE IF num = 1
         THEN "$\\frac{" \o latex \o "}{" \o ToString(den) \o "}$"
         ELSE IF num = -1
         THEN "$-\\frac{" \o latex \o "}{" \o ToString(den) \o "}$"
         ELSE IF num > 0
         THEN "$\\frac{" \o ToString(num) \o latex \o "}{"
                         \o ToString(den) \o "}$"
         ELSE "$-\\frac{" \o ToString(Abs(num)) \o latex \o "}{"
                          \o ToString(den) \o "}$"

\* _multiple_formatter(x, _) for x = (p / q) * number: den * x / number = den*p/q
multiple_formatter(denominator, p, q, latex) ==
    LET den0 == denominator
        num0 == rint(den0 * p, q)
        com  == gcd(num0, den0)
        num  == num0 \div com
        den  == den0 \div com
    IN format_fraction(num, den, latex)

Format ==
    /\ \E denominator \in 1..MaxDen, p \in (-MaxNum)..MaxNum, q \in 1..MaxQ :
        /\ fmt_in' = [called |-> TRUE, denominator |-> denominator,
                      p |-> p, q |-> q]
        /\ fmt_out' = multiple_formatter(denominator, p, q, latex_pi)
    /\ UNCHANGED <<cyclerVars, figVars, embedVars, labelVars, annVars, selVars,
                 coolVars>>

(***************************************************************************)
(*                 The host: an Axes and its rendered geometry             *)
(*                                                                         *)
(* Window extents are integers in units of 1/8000 pixel; every length the  *)
(* host lays out is a multiple of 16 units, so the halvings the embedder   *)
(* does are exact.  A relative (axes) coordinate is kept as the fraction   *)
(* n / d whose denominator d is the width or height of the axis box.       *)
(***************************************************************************)

\* ticks per axis dimension (major and minor together)
MaxTicks == 3

Dims == {"x", "y"}

\* data positions: the limits are [Lim.lo, Lim.hi]; 99999 and 300003 lie outside
\* them but within np.isclose's relative tolerance, 0 and 300004 do not
Lim == [lo |-> 100000, hi |-> 300000]
TickPos == {0, 99999, 200000, 300003, 300004}

\* rcParams read by the embedder: the pads are matplotlib's default 3.5 points,
\* written in tenths of a point
rcParams == [xtick_major_pad |-> 35, ytick_major_pad |-> 35, figure_dpi |-> 144]

Px(pixels) == pixels * 8000

\* the drawn axis box (Axes.get_window_extent): 400 x 400 pixels
AxisBox == [x0 |-> Px(100), y0 |-> Px(100), x1 |-> Px(500), y1 |-> Px(500)]

\* rendered size of a tick label, by its text
FracText == "$\\frac{\\pi}{2}$"
TextW(text) == IF text = "" THEN 0 ELSE IF text = FracText THEN Px(16) ELSE Px(10)
TextH(text) == IF text = "" THEN 0 ELSE IF text = FracText THEN Px(22) ELSE Px(12)
TitleW(text) == IF text = "" THEN 0 ELSE Px(30)
TickLen == Px(4)

\* the window coordinate a data position is drawn at (both dimensions of the
\* box span Lim.hi - Lim.lo data units over 400 pixels: 16 units each)
DataToPixel(which, pos) ==
    (IF which = "x" THEN AxisBox.x0 ELSE AxisBox.y0) + 16 * (pos - Lim.lo)

\* _points_to_pixels: points * dpi / 72, for points given in tenths
points_to_pixels(tenths) == (Px(tenths) * rcParams.figure_dpi) \div 720

\* Text.get_window_extent of the tick label drawn for position `pos`:
\* x tick labels hang below the box, y tick labels stand left (or, on a
\* twin axis, right) of it
TickLabelExtent(which, pos, text, side) ==
    LET c   == DataToPixel(which, pos)
        w   == TextW(text)
        h   == TextH(text)
        gap == TickLen + points_to_pixels(rcParams.xtick_major_pad)
    IN IF which = "x"
       THEN [x0 |-> c - w \div 2, x1 |-> c + w \div 2,
             y0 |-> AxisBox.y0 - gap - h, y1 |-> AxisBox.y0 - gap]
       ELSE IF side = "left"
       THEN [x0 |-> AxisBox.x0 - gap - w, x1 |-> AxisBox.x0 - gap,
             y0 |-> c - h \div 2, y1 |-> c + h \div 2]
       ELSE [x0 |-> AxisBox.x1 + gap, x1 |-> AxisBox.x1 + gap + w,
             y0 |-> c - h \div 2, y1 |-> c + h \div 2]

TickLabel(which, pos, text, side) ==
    [text |-> text, pos |-> pos, we |-> TickLabelExtent(which, pos, text, side)]

\* Text.get_window_extent of an axis title anchored at the relative x `xrel`
\* (a fraction over the box width)
TitleExtentX(text, ha, xrel) ==
    LET X == AxisBox.x0 + xrel.n
        w == TitleW(text)
    IN IF ha = "right" THEN [x0 |-> X - w, x1 |-> X]
       ELSE IF ha = "left" THEN [x0 |-> X, x1 |-> X + w]
       ELSE [x0 |-> X - w \div 2, x1 |-> X + w \div 2]

\* matplotlib's defaults for a fresh axis title
DefaultTitle(which, text) ==
    [text |-> text, rotation |-> IF which = "x" THEN 0 ELSE 90,
     ha |-> "center", va |-> IF which = "x" THEN "top" ELSE "bottom",
     coords |-> [set |-> FALSE, x |-> [n |-> 0, d |-> 1], y |-> [n |-> 0, d |-> 1]]]

\* the sequences of at most MaxTicks distinct tick positions
RECURSIVE TickSeqs(_)
TickSeqs(n) ==
    IF n = 0 THEN { <<>> }
    ELSE LET shorter == TickSeqs(n - 1) IN
         shorter \cup { Append(t, pos) : t \in { u \in shorter : Len(u) = n - 1 },
                                         pos \in TickPos }

DistinctTickSeqs ==
    { t \in TickSeqs(MaxTicks) : \A i, j \in 1..Len(t) : i # j => t[i] # t[j] }

\* the tick labels the host holds for `ticks`: one per tick, the `empty`-th
\* with empty text
HostTickLabels(which, ticks, empty, side) ==
    LET text(i) == IF i = empty THEN ""
                   ELSE IF ticks[i] = 200000 THEN FracText ELSE "1"
    IN [i \in 1..Len(ticks) |-> TickLabel(which, ticks[i], text(i), side)]

(***************************************************************************)
(*                        format.py: the label embedder                    *)
(***************************************************************************)

\* which tick labels of an axis dimension are visible: label1 only (the
\* default), none (tick labels switched off, inner axes of shared subplots),
\* or label1 and label2 (labels on both sides)
LabelSides == {"one", "none", "both"}

\* Axis.get_ticklabels(which="both") for ticks of which the first `nmajor` are
\* major: the major ticks' visible label1s, then their visible label2s, then
\* the same for the minor ticks
get_ticklabels_both(which, ticks, empty, nmajor, sides) ==
    LET label1 == HostTickLabels(which, ticks, empty, "left")
        label2 == HostTickLabels(which, ticks, empty, "right")
        n      == Len(ticks)
    IN IF sides = "none" THEN <<>>
       ELSE IF sides = "one" THEN label1
       ELSE SubSeq(label1, 1, nmajor) \o SubSeq(label2, 1, nmajor)
            \o SubSeq(label1, nmajor + 1, n) \o SubSeq(label2, nmajor + 1, n)

\* np.argsort of distinct values, as 1-based indices
argsort_of(ticks) ==
    [i \in 1..Len(ticks) |->
        CHOOSE j \in 1..Len(ticks) :
            Cardinality({k \in 1..Len(ticks) : ticks[k] < ticks[j]}) = i - 1]

\* np.isclose(a, b, atol=0): |a - b| <= 1e-5 * |b|
isclose(a, b) == Abs(a - b) <= Abs(b) \div 100000

\* one entry of the mask ticks_in_limits returns
in_limits(tick, lim) ==
    (lim[1] <= tick /\ tick <= lim[2]) \/ isclose(tick, lim[1])
                                       \/ isclose(tick, lim[2])

\* ticks_in_limits: the mask over the sorted ticks, and the sorting permutation
ticks_in_limits(ax, which) ==
    LET argsort == argsort_of(ax.ticks[which])
    IN [indx    |-> [i \in 1..Len(argsort) |->
                        in_limits(ax.ticks[which][argsort[i]], ax.lim[which])],
        argsort |-> argsort]

\* numpy's array[mask] for a boolean mask of the array's length
RECURSIVE BoolMask(_, _)
BoolMask(arr, mask) ==
    IF Len(arr) = 0 THEN <<>>
    ELSE IF Head(mask) THEN <<Head(arr)>> \o BoolMask(Tail(arr), Tail(mask))
    ELSE BoolMask(Tail(arr), Tail(mask))

\* Python's seq[lo:hi] for 0 <= lo <= hi (0-based, hi exclusive, clipped)
Slice(arr, lo, hi) ==
    SubSeq(arr, lo + 1, IF hi < Len(arr) THEN hi ELSE Len(arr))

\* np.argmax of a non-empty boolean array, 0-based: the first True, else 0
argmax(mask) ==
    IF \E i \in 1..Len(mask) : mask[i]
    THEN (CHOOSE i \in 1..Len(mask) :
              mask[i] /\ \A j \in 1..(i - 1) : ~mask[j]) - 1
    ELSE 0

\* __assert_existing_renderer: draws when the renderer cache is empty; on a host
\* without get_renderer_cache (mpl >= 3.8) the AttributeError is swallowed
assert_existing_renderer(ax) ==
    IF ax.hasRendererCache /\ ~ax.rendered
    THEN [ax EXCEPT !.rendered = TRUE]
    ELSE ax

\* lines 137-138: the window is cut from the already filtered `ticklabels`
extend_labels(all, ticklabels, indx) ==
    Slice(ticklabels, argmax(indx), argmax(indx) + 2)

\* a plausible slip: the zero-label error is not raised
zero_labels_error_never(n, titled) == "none"

\* lines 132-134
zero_labels_error(n, titled) ==
    IF n < 1 /\ titled THEN "IndexError" ELSE "none"

\* lines 119-138 of _embed_label on evaluated ticks_in_limits results: the
\* labels in tick order, the mask without empty texts, the surviving labels
collect_labels(labels, til, titled) ==
    LET sorted == [i \in 1..Len(til.argsort) |-> labels[til.argsort[i]]]
        indx   == [i \in 1..Len(til.argsort) |->
                      til.indx[i] /\ labels[til.argsort[i]].text # ""]
        kept   == IF Len(sorted) = Len(indx) THEN BoolMask(sorted, indx)
                  ELSE sorted
    IN IF \E i \in 1..Len(til.argsort) : til.argsort[i] > Len(labels)
       THEN [err |-> "IndexError", ticklabels |-> <<>>]   \* line 120
       ELSE IF zero_labels_error(Len(kept), titled) # "none"
       THEN [err |-> zero_labels_error(Len(kept), titled), ticklabels |-> <<>>]
       ELSE IF Len(kept) < 2 /\ titled
       THEN [err |-> "none", ticklabels |-> extend_labels(sorted, kept, indx)]
       ELSE [err |-> "none", ticklabels |-> kept]

\* _embed_label(axis, which)
embed_label(ax, which) ==
    LET c == CHOOSE r \in { collect_labels(ax.ticklabels[which], til,
                                           ax.label[which].text # "") :
                            til \in {ticks_in_limits(ax, which)} } : TRUE
    IN [err |-> c.err, ticklabels |-> c.ticklabels,
        box |-> [ax0 |-> AxisBox.x0, ay0 |-> AxisBox.y0,
                 width |-> AxisBox.x1 - AxisBox.x0,
                 height |-> AxisBox.y1 - AxisBox.y0],
        axis |-> assert_existing_renderer(ax)]

\* _get_largest_ticklabel(ticklabels, which='y'): max() keeps the first maximum
get_largest_ticklabel(ticklabels) ==
    LET size(i) == ticklabels[i].we.y1 - ticklabels[i].we.y0
    IN ticklabels[CHOOSE i \in 1..Len(ticklabels) :
                     /\ \A j \in 1..Len(ticklabels) : size(j) <= size(i)
                     /\ \A j \in 1..(i - 1) : size(j) < size(i)]

\* a plausible slip: too few labels are let through to the placement
skip_axis_lt1(ticklabels) == Len(ticklabels) < 1

\* lines 151 and 194: `if len(ticklabels) < 2: return`
skip_axis(ticklabels) == Len(ticklabels) < 2

\* a plausible slip: the axis origin is not subtracted
to_relative_unshifted(pos, origin, extent) == [n |-> pos, d |-> extent]

\* lines 174-175 and 214-215: shift and transform to relative units
to_relative(pos, origin, extent) == [n |-> pos - origin, d |-> extent]

\* a plausible slip: an unknown keyword falls through to the last branch
alignment_error_lenient(which, align) == "none"

\* lines 162-171 and 200-211: the else branch of the alignment ladder
alignment_error(which, align) ==
    IF which = "x" /\ align \in {"bottom", "center", "top"} THEN "none"
    ELSE IF which = "y" /\ align \in {"left", "center", "right"} THEN "none"
    ELSE "ValueError"

XAligns == {"top", "center", "bottom", "middle"}
YAligns == {"left", "center", "right", "top"}
Captions == {"None", "(a)"}

\* lines 154-183 of embed_xlabel, on the labels and box _embed_label returned
place_xlabel(ax, tl, box, align, caption) ==
    LET n            == Len(tl)
        xpos         == (tl[n].we.x0 + tl[n - 1].we.x1) \div 2
        max_y0       == get_largest_ticklabel(tl).we.y0
        tick_height  == box.ay0 - points_to_pixels(rcParams.xtick_major_pad)
                        - max_y0
        ypos         == IF align = "bottom" THEN max_y0 - tick_height \div 2
                        ELSE IF align = "center" THEN max_y0
                        ELSE max_y0 + tick_height \div 2
        placed       == [ax EXCEPT !.label["x"] =
                            [text |-> @.text, rotation |-> 0, ha |-> "center",
                             va |-> "center",
                             coords |-> [set |-> TRUE,
                                 x |-> to_relative(xpos, box.ax0, box.width),
                                 y |-> to_relative(ypos, box.ay0, box.height)]]]
    IN IF alignment_error("x", align) # "none"
       THEN [axis |-> ax, err |-> alignment_error("x", align)]
       ELSE IF caption # "None"
       THEN [axis |-> [placed EXCEPT !.texts = Append(@,
                          [s |-> caption,
                           x |-> [n |-> box.width \div 2, d |-> box.width],
                           y |-> to_relative(max_y0 - tick_height, box.ay0,
                                             box.height)])],
             err |-> "none"]
       ELSE [axis |-> placed, err |-> "none"]

\* embed_xlabel(axis, align, caption)
embed_xlabel(ax, align, caption) ==
    CHOOSE r \in
      { IF e.err # "none" THEN [axis |-> e.axis, err |-> e.err]
        ELSE IF skip_axis(e.ticklabels) THEN [axis |-> e.axis, err |-> "none"]
        ELSE IF Len(e.ticklabels) < 2      \* ticklabels[-2]
        THEN [axis |-> e.axis, err |-> "IndexError"]
        ELSE place_xlabel(e.axis, e.ticklabels, e.box, align, caption)
        : e \in {embed_label(ax, "x")} } : TRUE

\* a plausible slip: the first placement is kept without the padding re-check
recheck_ylabel_skipped(ax, box, ha, xrel, yrel) ==
    [text |-> ax.label["y"].text, rotation |-> 0, ha |-> ha, va |-> "center",
     coords |-> [set |-> TRUE, x |-> xrel, y |-> yrel]]

\* the padding re-check of embed_ylabel (lines 220-230) after the title was
\* first placed with alignment `ha` at (xrel, yrel)
recheck_ylabel(ax, box, ha, xrel, yrel) ==
    LET text         == ax.label["y"].text
        title(h, x)  == [text |-> text, rotation |-> 0, ha |-> h,
                         va |-> "center",
                         coords |-> [set |-> TRUE, x |-> x, y |-> yrel]]
        min_padding  == points_to_pixels(rcParams.ytick_major_pad)
        first_we     == TitleExtentX(text, ha, xrel)
    IN IF 2 * xrel.n < xrel.d
       THEN IF first_we.x1 + min_padding > box.ax0
            THEN title("right", [n |-> -min_padding, d |-> box.width])
            ELSE title(ha, xrel)
       ELSE IF 2 * xrel.n > xrel.d
       THEN IF first_we.x0 - min_padding < box.ax0 + box.width
            THEN title("left", [n |-> box.width + min_padding, d |-> box.width])
            ELSE title(ha, xrel)
       ELSE title(ha, xrel)

\* lines 197-230 of embed_ylabel, on the labels and box _embed_label returned
place_ylabel(ax, tl, box, align) ==
    LET n            == Len(tl)
        last_tick_we == tl[n].we
        ypos         == (last_tick_we.y0 + tl[n - 1].we.y1) \div 2
        tick_width   == last_tick_we.x1 - last_tick_we.x0
        xpos         == IF align = "left" THEN last_tick_we.x0
                        ELSE IF align = "center"
                        THEN last_tick_we.x0 + tick_width \div 2
                        ELSE last_tick_we.x1
    IN IF alignment_error("y", align) # "none"
       THEN [axis |-> ax, err |-> alignment_error("y", align)]
       ELSE [axis |-> [ax EXCEPT !.label["y"] =
                         recheck_ylabel(ax, box,
                             IF align = "left" THEN "right" ELSE align,
                             to_relative(xpos, box.ax0, box.width),
                             to_relative(ypos, box.ay0, box.height))],
             err |-> "none"]

\* embed_ylabel(axis, align)
embed_ylabel(ax, align) ==
    CHOOSE r \in
      { IF e.err # "none" THEN [axis |-> e.axis, err |-> e.err]
        ELSE IF skip_axis(e.ticklabels) THEN [axis |-> e.axis, err |-> "none"]
        ELSE IF Len(e.ticklabels) < 2      \* ticklabels[-2]
        THEN [axis |-> e.axis, err |-> "IndexError"]
        ELSE place_ylabel(e.axis, e.ticklabels, e.box, align)
        : e \in {embed_label(ax, "y")} } : TRUE

EmbedXLabel ==
    /\ eop.name = "none"
    /\ \E align \in XAligns, caption \in Captions :
         \E r \in {embed_xlabel(axis, align, caption)} :
         /\ axis' = r.axis
         /\ eerr' = r.err
         /\ eop' = [name |-> "embed_xlabel", which |-> "x", align |-> align,
                    caption |-> caption]
    /\ epre' = axis
    /\ UNCHANGED <<cyclerVars, figVars, fmtVars, labelVars, annVars, selVars,
                 coolVars>>

EmbedYLabel ==
    /\ eop.name = "none"
    /\ \E align \in YAligns :
         \E r \in {embed_ylabel(axis, align)} :
         /\ axis' = r.axis
         /\ eerr' = r.err
         /\ eop' = [name |-> "embed_ylabel", which |-> "y", align |-> align,
                    caption |-> "None"]
    /\ epre' = axis
    /\ UNCHANGED <<cyclerVars, figVars, fmtVars, labelVars, annVars, selVars,
                 coolVars>>

\* the (renderer cache filled, host has get_renderer_cache) pairs an Axes
\* starts in
RenderStates == {<<FALSE, TRUE>>, <<FALSE, FALSE>>, <<TRUE, FALSE>>}

\* an Axes after plotting and (optionally) set_xlabel / set_ylabel
NewAxis(ticks, empty, side, titled, render) ==
    [lim        |-> [d \in Dims |-> <<Lim.lo, Lim.hi>>],
     ticks      |-> [d \in Dims |-> ticks],
     ticklabels |-> [d \in Dims |-> HostTickLabels(d, ticks, empty, side)],
     label      |-> [d \in Dims |-> DefaultTitle(d, IF titled THEN d ELSE "")],
     texts      |-> <<>>,
     rendered   |-> render[1],
     hasRendererCache |-> render[2]]

(***************************************************************************)
(*                        format.py: embed_labels                          *)
(*                                                                         *)
(* The host's event loop: a one-shot timer that is either armed or idle,   *)
(* the handlers connected to canvas events, and the events the user and    *)
(* the canvas send.  An argument of embed_labels is a single value         *)
(* (kind "scalar"), a list (kind "list") or None (kind "none").            *)
(***************************************************************************)

\* axes handed to one embed_labels call, and user events sent afterwards
MaxAxes == 3
MaxEvents == 2

Scalar(v) == [kind |-> "scalar", v |-> <<v>>]
List(l)   == [kind |-> "list", v |-> l]
NoneOpt   == [kind |-> "none", v |-> <<>>]

\* [v] * length
Repeat(v, length) == [i \in 1..length |-> v]

\* lines 250-264: xva / yha.  np.array([opt]) has shape (1,) or (1, M), so the
\* shape[0] == 1 branch is always taken and np.full(length, opt) broadcasts:
\* it raises ValueError unless M is 1 or length; the assert then passes
broadcast_alignment(opt, length, default) ==
    IF opt.kind = "none" THEN [err |-> "none", v |-> Repeat(default, length)]
    ELSE IF Len(opt.v) = 1 THEN [err |-> "none", v |-> Repeat(opt.v[1], length)]
    ELSE IF Len(opt.v) = length THEN [err |-> "none", v |-> opt.v]
    ELSE [err |-> "ValueError", v |-> <<>>]

\* a plausible slip: a list of the wrong length is cut or padded, no assert
broadcast_flag_unchecked(opt, length) ==
    [err |-> "none",
     v |-> [i \in 1..length |-> IF i <= Len(opt.v) THEN opt.v[i] ELSE opt.v[1]]]

\* lines 266-279: set_captions / embed_xlabels / embed_ylabels
broadcast_flag(opt, length) ==
    IF opt.kind = "scalar" THEN [err |-> "none", v |-> Repeat(opt.v[1], length)]
    ELSE IF Len(opt.v) = length THEN [err |-> "none", v |-> opt.v]
    ELSE [err |-> "AssertionError", v |-> <<>>]

\* the first error of a list of checks made in order
FirstError(errs) ==
    IF \E i \in 1..Len(errs) : errs[i] # "none"
    THEN errs[CHOOSE i \in 1..Len(errs) :
                 errs[i] # "none" /\ \A j \in 1..(i - 1) : errs[j] = "none"]
    ELSE "none"

\* lines 246-279 of embed_labels: the per-axis options, or the error raised
check_options(length, set_captions, embed_xlabels, embed_ylabels, xva, yha) ==
    [err |-> FirstError(<<broadcast_alignment(xva, length, "top").err,
                          broadcast_alignment(yha, length, "center").err,
                          broadcast_flag(set_captions, length).err,
                          broadcast_flag(embed_xlabels, length).err,
                          broadcast_flag(embed_ylabels, length).err>>),
     xva           |-> broadcast_alignment(xva, length, "top").v,
     yha           |-> broadcast_alignment(yha, length, "center").v,
     set_captions  |-> broadcast_flag(set_captions, length).v,
     embed_xlabels |-> broadcast_flag(embed_xlabels, length).v,
     embed_ylabels |-> broadcast_flag(embed_ylabels, length).v]

\* a plausible slip: the handler is also connected to the canvas's draw_event
connected_events_with_draw ==
    {"resize_event", "button_release_event", "key_release_event", "draw_event"}

\* line 308: the events update_label_positions is connected to
connected_events ==
    {"resize_event", "button_release_event", "key_release_event"}

\* a plausible slip: the handler does not start the timer
dispatch_without_start(event, handlers, timer) == timer

\* the canvas sends `event`: update_label_positions (lines 283-286) restarts the
\* timer if it is connected to that event
dispatch(event, handlers, timer) ==
    IF event \in handlers THEN "armed" ELSE timer

\* a plausible slip: the caption cycle is created anew for every axis
next_caption_reset(captions, flag) ==
    IF flag THEN [captions |-> captions,
                  caption |-> get_label(AlphabeticalLabels_init(NoneArg, 0)).ret]
    ELSE [captions |-> captions, caption |-> "None"]

\* lines 292-295: the caption of one axis and the cycle after it
next_caption(captions, flag) ==
    IF flag THEN [captions |-> get_label(captions).self,
                  caption |-> get_label(captions).ret]
    ELSE [captions |-> captions, caption |-> "None"]

\* lines 297-301: the two embedder calls on one axis
embed_one(ax, do_x, x_align, caption, do_y, y_align) ==
    CHOOSE r \in
      { IF rx.err # "none" THEN rx
        ELSE IF do_y THEN embed_ylabel(rx.axis, y_align)
        ELSE rx
        : rx \in { IF do_x THEN embed_xlabel(ax, x_align, caption)
                   ELSE [axis |-> ax, err |-> "none"] } } : TRUE

\* lines 288-301 of _update_label_positions from axis i on: the axes after the
\* loop, the exception that left it, and the number of axes it completed
RECURSIVE update_from(_, _, _, _)
update_from(axes, opts, i, captions) ==
    IF i > Len(axes) THEN [axes |-> axes, err |-> "none", done |-> Len(axes)]
    ELSE CHOOSE r \in
      { IF e.err # "none"
        THEN [axes |-> [axes EXCEPT ![i] = e.axis], err |-> e.err,
              done |-> i - 1]
        ELSE update_from([axes EXCEPT ![i] = e.axis], opts, i + 1,
                         next_caption(captions, opts.set_captions[i]).captions)
        : e \in { embed_one(axes[i], opts.embed_xlabels[i], opts.xva[i],
                            next_caption(captions, opts.set_captions[i]).caption,
                            opts.embed_ylabels[i], opts.yha[i]) } } : TRUE

\* the axes a figure is made of: two visible tick labels and titles; no
\* visible tick label and titles; one visible tick label and no titles
AxisKinds == {"T2", "T0", "U1"}

AxisOfKind(kind) ==
    IF kind = "T2" THEN NewAxis(<<99999, 200000>>, 0, "left", TRUE, <<TRUE, FALSE>>)
    ELSE IF kind = "T0" THEN NewAxis(<<0>>, 0, "left", TRUE, <<TRUE, FALSE>>)
    ELSE NewAxis(<<200000>>, 0, "left", FALSE, <<TRUE, FALSE>>)

\* figures of 1 .. MaxAxes axes, all of kind "T2" but for at most one
AxesLists ==
    UNION { { [i \in 1..n |-> AxisOfKind("T2")] } \cup
            { [i \in 1..n |-> AxisOfKind(IF i = k THEN kind ELSE "T2")] :
                k \in 1..n, kind \in AxisKinds }
            : n \in 1..MaxAxes }

RECURSIVE BoolLists(_)
BoolLists(n) ==
    IF n = 0 THEN { <<>> }
    ELSE { <<b>> \o l : b \in BOOLEAN, l \in BoolLists(n - 1) }

CaptionArgs ==
    {Scalar(FALSE), Scalar(TRUE)} \cup
    { List(l) : l \in UNION { BoolLists(n) : n \in 1..MaxAxes } }
EmbedXArgs == {Scalar(TRUE), List(<<TRUE>>), List(<<TRUE, FALSE, TRUE>>)}
EmbedYArgs == {Scalar(TRUE), Scalar(FALSE), List(<<FALSE, TRUE>>)}
XvaArgs == {NoneOpt, Scalar("middle"), List(<<"bottom">>),
            List(<<"top", "center">>)}
YhaArgs == {NoneOpt, Scalar("right"), List(<<"left", "right", "top">>)}

\* the figure embed_labels leaves behind when it reaches plt.show(): the
\* checked options, the timer (started if the options were accepted) and the
\* connected handlers
embed_labels(axes, set_captions, embed_xlabels, embed_ylabels, xva, yha) ==
    CHOOSE r \in
      { [called   |-> TRUE,
         args     |-> [set_captions |-> set_captions,
                       embed_xlabels |-> embed_xlabels,
                       embed_ylabels |-> embed_ylabels,
                       xva |-> xva, yha |-> yha],
         given    |-> axes,
         axes     |-> axes,
         err      |-> opts.err,
         opts     |-> opts,
         timer    |-> IF opts.err = "none" THEN "armed" ELSE "none",
         handlers |-> IF opts.err = "none" THEN connected_events ELSE {},
         passes   |-> 0,
         events   |-> 0,
         draws    |-> 0,
         cberr    |-> "none",
         done     |-> 0,
         first    |-> axes]
        : opts \in { check_options(Len(axes), set_captions, embed_xlabels,
                                   embed_ylabels, xva, yha) } } : TRUE

\* embed_labels(fig, axes, ...) up to and including plt.show(): the options
\* are checked, the timer is made, the handlers are connected and the timer is
\* started; the host's event loop then runs
EmbedLabels ==
    /\ ~lab.called
    /\ \E axes \in AxesLists, set_captions \in CaptionArgs,
          embed_xlabels \in EmbedXArgs, embed_ylabels \in EmbedYArgs,
          xva \in XvaArgs, yha \in YhaArgs :
         lab' = embed_labels(axes, set_captions, embed_xlabels, embed_ylabels,
                             xva, yha)
    /\ UNCHANGED <<cyclerVars, figVars, fmtVars, embedVars, annVars, selVars,
                 coolVars>>

\* embed_labels(fig, axes) with every option left at its default
EmbedLabelsDefaults ==
    /\ ~lab.called
    /\ \E axes \in AxesLists :
         lab' = embed_labels(axes, Scalar(FALSE), Scalar(TRUE), Scalar(TRUE),
                             NoneOpt, NoneOpt)
    /\ UNCHANGED <<cyclerVars, figVars, fmtVars, embedVars, annVars, selVars,
                 coolVars>>

\* the armed one-shot timer fires: _update_label_positions runs in the timer's
\* callback; if no embedder call raises it ends with fig.canvas.draw(), which
\* sends the canvas's draw_event
TimerFires ==
    /\ lab.called
    /\ lab.timer = "armed"
    /\ \E r \in { update_from(lab.axes, lab.opts, 1,
                              AlphabeticalLabels_init(NoneArg, 0)) } :
         lab' = [lab EXCEPT
                   !.axes   = r.axes,
                   !.cberr  = r.err,
                   !.done   = r.done,
                   !.passes = @ + 1,
                   !.draws  = IF r.err = "none" THEN @ + 1 ELSE @,
                   !.timer  = IF r.err = "none"
                              THEN dispatch("draw_event", lab.handlers, "idle")
                              ELSE "idle",
                   !.first  = IF lab.passes = 0 THEN r.axes ELSE @]
    /\ UNCHANGED <<cyclerVars, figVars, fmtVars, embedVars, annVars, selVars,
                 coolVars>>

\* the user resizes the window or releases a button or key
UserEvent ==
    /\ lab.called
    /\ lab.timer # "none"
    /\ lab.events < MaxEvents
    /\ \E event \in {"resize_event", "button_release_event", "key_release_event"} :
         lab' = [lab EXCEPT !.events = @ + 1,
                            !.timer = dispatch(event, lab.handlers, @)]
    /\ UNCHANGED <<cyclerVars, figVars, fmtVars, embedVars, annVars, selVars,
                 coolVars>>

(***************************************************************************)
(*                 annotate.py: annotate_points and draw_bbox              *)
(*                                                                         *)
(* Coordinates of the given points are integers; computed positions are    *)
(* exact rationals.  The axis holds its texts, its patches and its data    *)
(* and view limits.                                                        *)
(***************************************************************************)

\* points in one point cloud
MaxPoints == 2

R(i) == Num(i, 1, 0)
RAdd(a, b) == Num(a.n * b.d + b.n * a.d, a.d * b.d, 0)
RNeg(a) == [a EXCEPT !.n = -a.n]
RSub(a, b) == RAdd(a, RNeg(b))
RLe(a, b) == a.n * b.d <= b.n * a.d
RLt(a, b) == a.n * b.d < b.n * a.d
RMin(a, b) == IF RLe(a, b) THEN a ELSE b
RMax(a, b) == IF RLe(a, b) THEN b ELSE a

\* np.min / np.max of a non-empty integer array
RECURSIVE np_min(_)
np_min(a) == IF Len(a) = 1 THEN a[1]
             ELSE IF a[1] <= np_min(Tail(a)) THEN a[1] ELSE np_min(Tail(a))

RECURSIVE np_max(_)
np_max(a) == IF Len(a) = 1 THEN a[1]
             ELSE IF a[1] >= np_max(Tail(a)) THEN a[1] ELSE np_max(Tail(a))

\* the box [x0, x1] x [y0, y1]
Box(x0, x1, y0, y1) == [set |-> TRUE, x0 |-> x0, x1 |-> x1, y0 |-> y0, y1 |-> y1]
NoBox == [set |-> FALSE, x0 |-> R(0), x1 |-> R(0), y0 |-> R(0), y1 |-> R(0)]

\* Axes.update_datalim: the smallest box around both
BoxUnion(a, b) ==
    IF ~a.set THEN b
    ELSE IF ~b.set THEN a
    ELSE Box(RMin(a.x0, b.x0), RMax(a.x1, b.x1),
             RMin(a.y0, b.y0), RMax(a.y1, b.y1))

\* Axes.autoscale_view: the data limits widened by the default 5 % margin
autoscale_view(dataLim) ==
    IF ~dataLim.set THEN dataLim
    ELSE Box(RSub(dataLim.x0, RMul(Num(1, 20, 0), RSub(dataLim.x1, dataLim.x0))),
             RAdd(dataLim.x1, RMul(Num(1, 20, 0), RSub(dataLim.x1, dataLim.x0))),
             RSub(dataLim.y0, RMul(Num(1, 20, 0), RSub(dataLim.y1, dataLim.y0))),
             RAdd(dataLim.y1, RMul(Num(1, 20, 0), RSub(dataLim.y1, dataLim.y0))))

\* the extent, in data coordinates, of a text drawn at (xpos, ypos) with the
\* default alignment (left, baseline): one data unit wide and high
TextDataBox(xpos, ypos) == Box(xpos, RAdd(xpos, R(1)), ypos, RAdd(ypos, R(1)))

\* an axis on which the points x, y were plotted
PlottedAxis(x, y, xscale, yscale) ==
    [texts |-> <<>>, patches |-> <<>>, xscale |-> xscale, yscale |-> yscale,
     dataLim |-> IF Len(x) = 0 THEN NoBox
                 ELSE Box(R(np_min(x)), R(np_max(x)), R(np_min(y)), R(np_max(y))),
     viewLim |-> IF Len(x) = 0 THEN NoBox
                 ELSE autoscale_view(Box(R(np_min(x)), R(np_max(x)),
                                         R(np_min(y)), R(np_max(y))))]

\* lines 28-31 of annotate_points
annotate_ypos(ymin, ymax, yoffset, TextBelow) ==
    IF TextBelow THEN RSub(R(ymin), RMul(yoffset, R(ymax)))
    ELSE RAdd(R(ymax), RMul(yoffset, R(ymax)))

\* lines 15-26 of annotate_points
annotate_xpos(xmin, xmax, align) ==
    IF align = "left" THEN [err |-> "none", xpos |-> R(xmin)]
    ELSE IF align = "center" THEN [err |-> "none", xpos |-> Num(xmin + xmax, 2, 0)]
    ELSE IF align = "right" THEN [err |-> "none", xpos |-> R(xmax)]
    ELSE [err |-> "ValueError", xpos |-> R(0)]

\* annotate_points(ax, text, x, y, yoffset, align, TextBelow): np.min of an
\* empty array raises ValueError
annotate_points(ax, text, x, y, yoffset, align, TextBelow) ==
    IF Len(x) = 0 \/ Len(y) = 0 THEN [ax |-> ax, err |-> "ValueError"]
    ELSE IF annotate_xpos(np_min(x), np_max(x), align).err # "none"
    THEN [ax |-> ax, err |-> annotate_xpos(np_min(x), np_max(x), align).err]
    ELSE CHOOSE r \in
      { [ax |-> [ax EXCEPT
                  !.texts = Append(@, [s |-> text, x |-> pos[1], y |-> pos[2]]),
                  !.dataLim = BoxUnion(@, TextDataBox(pos[1], pos[2])),
                  !.viewLim = autoscale_view(
                                 BoxUnion(ax.dataLim, TextDataBox(pos[1], pos[2])))],
         err |-> "none"]
        : pos \in { <<annotate_xpos(np_min(x), np_max(x), align).xpos,
                      annotate_ypos(np_min(y), np_max(y), yoffset, TextBelow)>> } }
      : TRUE

\* a plausible slip: the same padding on both sides, as on a linear axis
log_right_pad_linear(vmax, vmin, left) == left

\* lines 58 and 63 of draw_bbox: xright = xmax * xleft / (xmin - xleft)
log_right_pad(vmax, vmin, left) ==
    RDiv(RMul(R(vmax), left), RSub(R(vmin), left))

\* lines 50-63 of draw_bbox for one dimension: the paddings below and above
bbox_padding(vmin, vmax, buffer, scale) ==
    IF scale = "log"
    THEN [lo |-> RMul(buffer, R(vmin)),
          hi |-> log_right_pad(vmax, vmin, RMul(buffer, R(vmin)))]
    ELSE [lo |-> buffer, hi |-> buffer]

\* the rectangle of lines 65-66 from the two paddings
bbox_rectangle(x, y, px, py) ==
    [x |-> RSub(R(np_min(x)), px.lo),
     y |-> RSub(R(np_min(y)), py.lo),
     width  |-> RAdd(R(np_max(x) - np_min(x)), RAdd(px.lo, px.hi)),
     height |-> RAdd(R(np_max(y) - np_min(y)), RAdd(py.lo, py.hi))]

\* draw_bbox(ax, x, y, xbuffer, ybuffer): only x.shape[0] == 1 returns early;
\* np.min of an empty array raises ValueError; add_patch extends the data
\* limits by the rectangle
draw_bbox(ax, x, y, xbuffer, ybuffer) ==
    IF Len(x) = 1 THEN [ax |-> ax, err |-> "none"]
    ELSE IF Len(x) = 0 \/ Len(y) = 0 THEN [ax |-> ax, err |-> "ValueError"]
    ELSE CHOOSE r \in
      { [ax |-> [ax EXCEPT
                  !.patches = Append(@, rect),
                  !.dataLim = BoxUnion(@, Box(rect.x, RAdd(rect.x, rect.width),
                                              rect.y, RAdd(rect.y, rect.height)))],
         err |-> "none"]
        : rect \in { bbox_rectangle(x, y,
                        bbox_padding(np_min(x), np_max(x), xbuffer, ax.xscale),
                        bbox_padding(np_min(y), np_max(y), ybuffer, ax.yscale)) } }
      : TRUE

\* the point clouds: at most MaxPoints points with these coordinates
PointXs == {1, 4, 100}
PointYs == {-2, 0, 1, 10}

RECURSIVE Clouds(_)
Clouds(n) ==
    IF n = 0 THEN { [x |-> <<>>, y |-> <<>>] }
    ELSE Clouds(n - 1) \cup
         { [x |-> Append(c.x, px), y |-> Append(c.y, py)] :
             c \in { d \in Clouds(n - 1) : Len(d.x) = n - 1 },
             px \in PointXs, py \in PointYs }

YOffsets == {Num(3, 100, 0), Num(1, 2, 0)}
Buffers == {Num(1, 100, 0), Num(1, 20, 0), Num(1, 2, 0)}
HAligns == {"left", "center", "right", "top"}
Scales == {"linear", "log"}

AnnotatePoints ==
    /\ ~ann.called
    /\ \E c \in Clouds(MaxPoints), yoffset \in YOffsets, align \in HAligns,
          TextBelow \in BOOLEAN :
         \E r \in { annotate_points(PlottedAxis(c.x, c.y, "linear", "linear"),
                                    "text", c.x, c.y, yoffset, align, TextBelow) } :
           ann' = [called |-> TRUE, op |-> "annotate_points", x |-> c.x, y |-> c.y,
                   yoffset |-> yoffset, align |-> align, TextBelow |-> TextBelow,
                   xbuffer |-> R(0), ybuffer |-> R(0),
                   before |-> PlottedAxis(c.x, c.y, "linear", "linear"),
                   ax |-> r.ax, err |-> r.err]
    /\ UNCHANGED <<cyclerVars, figVars, fmtVars, embedVars, labelVars, selVars,
                 coolVars>>

\* a logarithmic axis shows positive data only
DrawBbox ==
    /\ ~ann.called
    /\ \E c \in Clouds(MaxPoints), xbuffer \in Buffers, ybuffer \in Buffers,
          xscale \in Scales, yscale \in Scales :
         /\ xscale = "log" => \A i \in 1..Len(c.x) : c.x[i] > 0
         /\ yscale = "log" => \A i \in 1..Len(c.y) : c.y[i] > 0
         /\ \E r \in { draw_bbox(PlottedAxis(c.x, c.y, xscale, yscale),
                                 c.x, c.y, xbuffer, ybuffer) } :
              ann' = [called |-> TRUE, op |-> "draw_bbox", x |-> c.x, y |-> c.y,
                      yoffset |-> R(0), align |-> "none", TextBelow |-> FALSE,
                      xbuffer |-> xbuffer, ybuffer |-> ybuffer,
                      before |-> PlottedAxis(c.x, c.y, xscale, yscale),
                      ax |-> r.ax, err |-> r.err]
    /\ UNCHANGED <<cyclerVars, figVars, fmtVars, embedVars, labelVars, selVars,
                 coolVars>>

(***************************************************************************)
(*              format.py: the operations taking an axis selector          *)
(*                                                                         *)
(* `which` reaches the host through getattr on a name built from it, so a  *)
(* selector is refused exactly where such a lookup, or an explicit test,   *)
(* is executed.                                                            *)
(***************************************************************************)

\* what getattr(axis, name) finds on a matplotlib Axes: an Axis object, a bound
\* method, or nothing (AttributeError)
getattr_axes(name) ==
    IF name \in {"xaxis", "yaxis"} THEN "Axis"
    ELSE IF name \in {"axis", "get_xlim", "get_ylim", "get_xticks", "get_yticks",
                      "get_xticklabels", "get_yticklabels",
                      "get_xlabel", "get_ylabel"}
    THEN "method"
    ELSE "missing"

\* ticklabels_in_limits(ticklabels, limits, which): the selector is tested
\* once per tick label, inside the loop
RECURSIVE ticklabels_in_limits(_, _, _)
ticklabels_in_limits(ticklabels, limits, which) ==
    IF Len(ticklabels) = 0 THEN [err |-> "none", out |-> <<>>]
    ELSE IF which \notin {"x", "y"} THEN [err |-> "AttributeError", out |-> <<>>]
    ELSE LET tick_we    == Head(ticklabels).we
             TickInAxis ==
                 IF which = "x"
                 THEN tick_we.x1 > limits[1] /\ tick_we.x0 < limits[2]
                 ELSE /\ 2 * limits[2] > tick_we.y1 + tick_we.y0
                      /\ tick_we.y1 + tick_we.y0 > 2 * limits[1]
             rest       == ticklabels_in_limits(Tail(ticklabels), limits, which)
         IN IF rest.err # "none" THEN rest
            ELSE [err |-> "none",
                  out |-> IF TickInAxis THEN <<Head(ticklabels)>> \o rest.out
                          ELSE rest.out]

\* ticks_in_limits(axis, which) for any selector: line 51 looks the limits up
\* first
ticks_in_limits_of(ax, which) ==
    IF getattr_axes("get_" \o which \o "lim") = "missing"
    THEN [err |-> "AttributeError", out |-> <<>>]
    ELSE [err |-> "none", out |-> ticks_in_limits(ax, which)]

\* _embed_label(axis, which) for any selector: the renderer is asserted, then
\* ticks_in_limits is called
embed_label_of(ax, which) ==
    IF ticks_in_limits_of(ax, which).err # "none"
    THEN [err |-> ticks_in_limits_of(ax, which).err, out |-> <<>>,
          axis |-> assert_existing_renderer(ax)]
    ELSE CHOOSE r \in { [err |-> e.err, out |-> e.ticklabels, axis |-> e.axis] :
                        e \in {embed_label(ax, which)} } : TRUE

\* format_ticklabels(axis, which, major_den, minor_den): the locators and the
\* formatter the chosen Axis ends with (number = pi, so a base is written as
\* the denominator pi is divided by; 0 stands for an untouched minor locator)
format_ticklabels(which, major_den, minor_den) ==
    LET w1 == IF which \in {"x", "xaxis"} THEN "xaxis" ELSE which
        w2 == IF w1 \in {"y", "yaxis"} THEN "yaxis" ELSE w1
    IN IF getattr_axes(w2) # "Axis" THEN [err |-> "AttributeError", out |-> <<>>]
       ELSE IF major_den = 0 THEN [err |-> "ZeroDivisionError", out |-> <<>>]
       ELSE [err |-> "none",
             out |-> <<[subaxis |-> w2, major_locator |-> major_den,
                        minor_locator |-> IF minor_den > 0 THEN minor_den ELSE 0,
                        major_formatter |-> major_den]>>]

\* default `decimals` of set_ticks_linear; ticks are counted in units of
\* 10^-decimals
decimals == 7
TickUnit == 10000000

\* np.round(np.linspace(vmin, vmax, numticks), decimals) for integers
\* 0 <= vmin, vmax (no value of these inputs is a rounding tie)
linspace_rounded(vmin, vmax, numticks) ==
    IF numticks = 1 THEN << vmin * TickUnit >>
    ELSE [i \in 1..numticks |->
            (2 * TickUnit * (vmin * (numticks - 1) + (i - 1) * (vmax - vmin))
                + (numticks - 1)) \div (2 * (numticks - 1))]

\* set_ticks_linear(axis, vmin, vmax, numticks, which=which): the Axis found
\* under f"{which}axis" gets a FixedLocator
set_ticks_linear(vmin, vmax, numticks, which) ==
    IF getattr_axes(which \o "axis") # "Axis"
    THEN [err |-> "AttributeError", out |-> <<>>]
    ELSE [err |-> "none",
          out |-> <<[subaxis |-> which \o "axis",
                     major_locator |-> linspace_rounded(vmin, vmax, numticks)]>>]

\* an Axes whose last Len(ticks) - nmajor ticks are minor ticks and whose tick
\* labels are visible on `sides`
PlottedTicks(ticks, empty, nmajor, sides, titled, render) ==
    [NewAxis(ticks, empty, "left", titled, render) EXCEPT
        !.ticklabels = [d \in Dims |->
                           get_ticklabels_both(d, ticks, empty, nmajor, sides)]]

\* selectors handed in: the two names, their long forms, and two strangers
Selectors == {"x", "y", "xaxis", "yaxis", "z", ""}

\* window limits handed to ticklabels_in_limits: the box, along either dimension
BoxLimits == <<AxisBox.x0, AxisBox.x1>>

TicklabelsInLimits ==
    /\ ~sel.called
    /\ \E which \in Selectors, drawn \in Dims, ticks \in DistinctTickSeqs :
         \E r \in {ticklabels_in_limits(HostTickLabels(drawn, ticks, 0, "left"),
                                        BoxLimits, which)} :
           sel' = [called |-> TRUE, op |-> "ticklabels_in_limits",
                   which |-> which, nlabels |-> Len(ticks),
                   args |-> <<drawn, ticks>>, err |-> r.err, out |-> r.out]
    /\ UNCHANGED <<cyclerVars, figVars, fmtVars, embedVars, labelVars, annVars,
                 coolVars>>

TicksInLimits ==
    /\ ~sel.called
    /\ \E which \in Selectors, ticks \in DistinctTickSeqs :
         \E r \in {ticks_in_limits_of(
                       NewAxis(ticks, 0, "left", TRUE, <<TRUE, TRUE>>), which)} :
           sel' = [called |-> TRUE, op |-> "ticks_in_limits",
                   which |-> which, nlabels |-> Len(ticks),
                   args |-> <<ticks>>, err |-> r.err, out |-> r.out]
    /\ UNCHANGED <<cyclerVars, figVars, fmtVars, embedVars, labelVars, annVars,
                 coolVars>>

EmbedLabel ==
    /\ ~sel.called
    /\ \E which \in Selectors, ticks \in DistinctTickSeqs, titled \in BOOLEAN,
          render \in RenderStates, sides \in LabelSides, minor \in {0, 1},
          empty \in BOOLEAN :
         /\ minor <= Len(ticks)
         /\ empty => Len(ticks) > 0
         /\ \E r \in {embed_label_of(
                         PlottedTicks(ticks, IF empty THEN Len(ticks) ELSE 0,
                                      Len(ticks) - minor, sides, titled, render),
                         which)} :
              sel' = [called |-> TRUE, op |-> "_embed_label",
                      which |-> which, nlabels |-> Len(ticks),
                      args |-> <<ticks, titled, render, sides, minor, empty>>,
                      err |-> r.err, out |-> r.out,
                      rendered |-> r.axis.rendered]
    /\ UNCHANGED <<cyclerVars, figVars, fmtVars, embedVars, labelVars, annVars,
                 coolVars>>

FormatTicklabels ==
    /\ ~sel.called
    /\ \E which \in Selectors, major_den \in {0, 2, 6}, minor_den \in {0, 24} :
         \E r \in {format_ticklabels(which, major_den, minor_den)} :
           sel' = [called |-> TRUE, op |-> "format_ticklabels",
                   which |-> which, nlabels |-> 0,
                   args |-> <<major_den, minor_den>>, err |-> r.err,
                   out |-> r.out]
    /\ UNCHANGED <<cyclerVars, figVars, fmtVars, embedVars, labelVars, annVars,
                 coolVars>>

SetTicksLinear ==
    /\ ~sel.called
    /\ \E which \in Selectors, vmin \in 0..2, vmax \in 0..2,
          numticks \in 0..MaxTicks :
         \E r \in {set_ticks_linear(vmin, vmax, numticks, which)} :
           sel' = [called |-> TRUE, op |-> "set_ticks_linear",
                   which |-> which, nlabels |-> 0,
                   args |-> <<vmin, vmax, numticks>>, err |-> r.err,
                   out |-> r.out]
    /\ UNCHANGED <<cyclerVars, figVars, fmtVars, embedVars, labelVars, annVars,
                 coolVars>>

(***************************************************************************)
(*                         utils.py: add_cooldown                          *)
(*                                                                         *)
(* time.perf_counter() is a clock with an undefined reference point that   *)
(* never runs backwards; its readings and the cooldown are counted in      *)
(* whole ticks.                                                            *)
(***************************************************************************)

\* largest clock reading, and calls made to one wrapped function
MaxClock == 6
MaxWrapperCalls == 3

\* cooldowns handed to add_cooldown
Cooldowns == {0, 2, 4}

\* CooldownWrapper.__init__ (lines 36-39)
CooldownWrapper_init(cooldown) ==
    [last_call_time |-> 0, cooldown |-> cooldown]

\* CooldownWrapper.__call__ (lines 41-49) when perf_counter() reads
\* `current_time` and the wrapped function returns "result" or raises
CooldownWrapper_call(self, current_time, raises) ==
    IF current_time - self.last_call_time < self.cooldown
    THEN [self |-> self, executed |-> FALSE, ret |-> "None", err |-> "none"]
    ELSE IF raises
    THEN [self |-> self, executed |-> TRUE, ret |-> "None", err |-> "Exception"]
    ELSE [self |-> [self EXCEPT !.last_call_time = current_time],
          executed |-> TRUE, ret |-> "result", err |-> "none"]

\* a function freshly decorated with @add_cooldown(cooldown)
Decorated(cooldown) ==
    [wrapped |-> TRUE, self |-> CooldownWrapper_init(cooldown), now |-> 0,
     calls |-> <<>>]

\* the wrapped function is called at a clock reading not before the last one
CallWrapped ==
    /\ cool.wrapped
    /\ Len(cool.calls) < MaxWrapperCalls
    /\ \E current_time \in cool.now..MaxClock, raises \in BOOLEAN :
         \E r \in {CooldownWrapper_call(cool.self, current_time, raises)} :
           cool' = [cool EXCEPT
                      !.self  = r.self,
                      !.now   = current_time,
                      !.calls = Append(@, [time |-> current_time,
                                           executed |-> r.executed,
                                           ret |-> r.ret, err |-> r.err,
                                           before |-> cool.self.last_call_time,
                                           after |-> r.self.last_call_time])]
    /\ UNCHANGED <<cyclerVars, figVars, fmtVars, embedVars, labelVars, annVars,
                   selVars>>

(***************************************************************************)
(*                            Specifications                               *)
(***************************************************************************)

NoCycler == [cls |-> "none"]
NoHist == [ncalls |-> 0]
NoCall == [called |-> FALSE]
NoAxis == [rendered |-> FALSE]
NoOp == [name |-> "none"]
NoFigure == [called |-> FALSE]
NoWrapper == [wrapped |-> FALSE]

\* a cycler right after construction
InitCycler ==
    /\ \/ \E colors \in ColorArgs, ctr \in CtrArgs :
            /\ cyc = Colors_init(colors, ctr)
            /\ chist = NewHist(colors, cyc)
       \/ \E abc_labels \in LabelArgs, ctr \in CtrArgs :
            /\ cyc = AlphabeticalLabels_init(abc_labels, ctr)
            /\ chist = NewHist(abc_labels, cyc)
    /\ cret = "None"
    /\ cop = "__init__"
    /\ cerr = "none"
    /\ fig_in = NoCall
    /\ fig_out = [err |-> "none"]
    /\ fmt_in = NoCall
    /\ fmt_out = ""
    /\ lab = NoFigure
    /\ ann = NoCall
    /\ sel = NoCall
    /\ cool = NoWrapper
    /\ axis = NoAxis
    /\ eop = NoOp
    /\ eerr = "none"
    /\ epre = NoAxis

NextCycler == GetColor \/ PrevColor \/ GetLabel

SpecCycler == InitCycler /\ [][NextCycler]_vars

\* nothing called yet: set_figsize and the formatter are pure functions
InitPure ==
    /\ cyc = NoCycler
    /\ chist = NoHist
    /\ cret = "None"
    /\ cop = "none"
    /\ cerr = "none"
    /\ fig_in = NoCall
    /\ fig_out = [err |-> "none"]
    /\ fmt_in = NoCall
    /\ fmt_out = ""
    /\ lab = NoFigure
    /\ ann = NoCall
    /\ sel = NoCall
    /\ cool = NoWrapper
    /\ axis = NoAxis
    /\ eop = NoOp
    /\ eerr = "none"
    /\ epre = NoAxis

SpecFigsize == InitPure /\ [][SetFigsize]_vars

SpecFormatter == InitPure /\ [][Format]_vars

NextLabels == EmbedLabels \/ TimerFires \/ UserEvent

SpecLabels == InitPure /\ [][NextLabels]_vars

\* the host's event loop fires an armed timer
NextLabelsFair == EmbedLabelsDefaults \/ TimerFires \/ UserEvent

SpecLabelsFair == InitPure /\ [][NextLabelsFair]_vars /\ WF_vars(TimerFires)

NextAnnotate == AnnotatePoints \/ DrawBbox

SpecAnnotate == InitPure /\ [][NextAnnotate]_vars

NextSelector ==
    TicklabelsInLimits \/ TicksInLimits \/ EmbedLabel \/ FormatTicklabels
        \/ SetTicksLinear

SpecSelector == InitPure /\ [][NextSelector]_vars

\* a function right after it was decorated with add_cooldown
InitCooldown ==
    /\ cyc = NoCycler
    /\ chist = NoHist
    /\ cret = "None"
    /\ cop = "none"
    /\ cerr = "none"
    /\ fig_in = NoCall
    /\ fig_out = [err |-> "none"]
    /\ fmt_in = NoCall
    /\ fmt_out = ""
    /\ lab = NoFigure
    /\ ann = NoCall
    /\ sel = NoCall
    /\ \E cooldown \in Cooldowns : cool = Decorated(cooldown)
    /\ axis = NoAxis
    /\ eop = NoOp
    /\ eerr = "none"
    /\ epre = NoAxis

SpecCooldown == InitCooldown /\ [][CallWrapped]_vars

\* an Axes before the embedder is called on it
InitEmbed ==
    /\ cyc = NoCycler
    /\ chist = NoHist
    /\ cret = "None"
    /\ cop = "none"
    /\ cerr = "none"
    /\ fig_in = NoCall
    /\ fig_out = [err |-> "none"]
    /\ fmt_in = NoCall
    /\ fmt_out = ""
    /\ lab = NoFigure
    /\ ann = NoCall
    /\ sel = NoCall
    /\ cool = NoWrapper
    /\ \E ticks \in DistinctTickSeqs, empty \in {0, 1, 2},
          side \in {"left", "right"}, titled \in BOOLEAN,
          render \in RenderStates :
         /\ empty <= Len(ticks)
         /\ axis = NewAxis(ticks, empty, side, titled, render)
         /\ epre = axis
    /\ eop = NoOp
    /\ eerr = "none"

NextEmbed == EmbedXLabel \/ EmbedYLabel

SpecEmbed == InitEmbed /\ [][NextEmbed]_vars

Init == InitCycler
Next == NextCycler
Spec == SpecCycler

(***************************************************************************)
(*                     Properties of the cyclers                           *)
(***************************************************************************)

\* the element the k-th call of a cycle over `seq` started at 0 returns
KthElement(seq, k) == seq[((k - 1) % Len(seq)) + 1]

\* C1: on a cycler over a non-empty sequence started at counter 0 and advanced
\* only by the default increment, the k-th get_color / get_label returns
\* sequence[(k-1) mod length] (calls 1 and 9 on the 8-colour palette both
\* return its first element), and prev_color after n >= 1 such calls returns
\* what the n-th call returned.
C1_CycleOrder ==
    (/\ chist.ncalls >= 1
     /\ chist.allDefault
     /\ chist.ctr0 = 0
     /\ Len(chist.seq0) > 0
     /\ cop \in {"get_color", "get_label", "prev_color"})
    => /\ cerr = "none"
       /\ cret = KthElement(chist.seq0, chist.ncalls)
       /\ cop = "prev_color" => cret = chist.lastGet
       /\ (chist.seq0 = COLORS /\ chist.ncalls \in {1, 9}) => cret = COLORS[1]

\* the ninth default call on the default palette was made, and prev_color
\* then returned the first colour again
C1_NinthCallWraps ==
    /\ cop = "prev_color"
    /\ chist.ncalls = 9
    /\ chist.allDefault
    /\ chist.ctr0 = 0
    /\ chist.seq0 = COLORS
    /\ cret = "blue"

\* C2 as stated: after at least one get_color call, with any increments,
\* prev_color returns what the most recent get_color returned.
C2_PrevIsLastReturned ==
    (cop = "prev_color" /\ chist.ncalls >= 1 /\ cerr = "none")
    => cret = chist.lastGet

\* C3 as stated: no cycler of length 0 exists, and no call fails because the
\* sequence is empty.
C3_NoEmptyCycler ==
    /\ Len(SeqOf(cyc)) > 0
    /\ cerr # "ZeroDivisionError"

(***************************************************************************)
(*                     Properties of set_figsize                           *)
(***************************************************************************)

\* C4 as stated: a width that is a string but not a preset name fails with
\* UnknownPreset.
C4_UnknownPresetRejected ==
    (fig_in.called /\ fig_in.width \in OtherStrings)
    => fig_out.err = "UnknownPreset"

\* the point width the documentation gives for a preset or explicit width
DocumentWidthPt(width) ==
    IF width \in {PyNone, PyStr("thesis")} THEN Num(41825555, 100000, 0)
    ELSE IF width = PyStr("beamer") THEN Num(302, 1, 0)
    ELSE width.v

\* C5: for a preset or explicit point width, a fraction in (0,1] and a grid
\* (rows, cols), set_figsize returns width_in = width_pt*fraction/72.27 and
\* height_in = width_in * golden * (rows/cols) (in exact arithmetic); for
\* (1,1) height/width is the golden ratio, both dimensions are linear in the
\* fraction, and nothing else changes.
C5_FigureSize ==
    (fig_in.called /\ fig_in.width \in Presets \cup PointWidths)
    => LET golden == [n |-> 1, d |-> 1, g |-> 1]
           grid   == Num(fig_in.subplots[1], fig_in.subplots[2], 0)
           w      == RDiv(RMul(DocumentWidthPt(fig_in.width), fig_in.fraction.v),
                          Num(7227, 100, 0))
           whole  == set_figsize(fig_in.width, PyInt(1), fig_in.subplots)
       IN /\ fig_out.err = "none"
          /\ fig_out.w.v = w
          /\ fig_out.h.v = RMul(RMul(w, golden), grid)
          /\ fig_in.subplots = <<1, 1>> => RDiv(fig_out.h.v, fig_out.w.v) = golden
          /\ fig_out.w.v = RMul(whole.w.v, fig_in.fraction.v)
          /\ fig_out.h.v = RMul(whole.h.v, fig_in.fraction.v)
          /\ cyc = NoCycler /\ fmt_in = NoCall /\ axis = NoAxis

\* half the beamer width on a 2 x 3 grid was computed
C5_BeamerHalfGrid ==
    /\ fig_in.called
    /\ fig_in.width = PyStr("beamer")
    /\ fig_in.fraction = PyFloat(1, 2)
    /\ fig_in.subplots = <<2, 3>>
    /\ fig_out.err = "none"
    /\ fig_out.h.v = Num(2 * 15100, 3 * 7227, 1)

(***************************************************************************)
(*                     Properties of the formatter                         *)
(***************************************************************************)

\* the greatest common divisor of |k| and d >= 1, by its definition
GreatestCommonDivisor(k, d) ==
    CHOOSE g \in 1..d :
        /\ d % g = 0 /\ Abs(k) % g = 0
        /\ \A h \in 1..d : (d % h = 0 /\ Abs(k) % h = 0) => h <= g

\* the five patterns for the reduced fraction n / m of a multiple of pi
FivePatterns(n, m) ==
    LET sign == IF n < 0 THEN "-" ELSE ""
    IN IF n = 0 THEN "$0$"
       ELSE IF m = 1 /\ Abs(n) = 1 THEN "$" \o sign \o "\\pi$"
       ELSE IF m = 1 THEN "$" \o ToString(n) \o "\\pi$"
       ELSE IF Abs(n) = 1
       THEN "$" \o sign \o "\\frac{\\pi}{" \o ToString(m) \o "}$"
       ELSE "$" \o sign \o "\\frac{" \o ToString(Abs(n)) \o "\\pi}{"
                \o ToString(m) \o "}$"

\* C6: the formatter renders x from the reduced fraction n/m of
\* round(d*x/unit) over d by exactly one of five patterns: 0; +-unit (never
\* 1 unit); n unit; +-unit/m; +-(|n| unit)/m, with the sign of x.  With d = 2,
\* unit gives unit, 0 gives 0 and unit/2 gives unit/2.  The result depends
\* only on x.
C6_FivePatterns ==
    fmt_in.called
    => LET d == fmt_in.denominator
           k == rint(d * fmt_in.p, fmt_in.q)
           g == GreatestCommonDivisor(k, d)
       IN /\ fmt_out = FivePatterns(k \div g, d \div g)
          /\ (d = 2 /\ fmt_in.p = fmt_in.q) => fmt_out = "$\\pi$"
          /\ fmt_in.p = 0 => fmt_out = "$0$"
          /\ (d = 2 /\ 2 * fmt_in.p = fmt_in.q) => fmt_out = "$\\frac{\\pi}{2}$"
          /\ \A p2 \in (-MaxNum)..MaxNum, q2 \in 1..MaxQ :
                p2 * fmt_in.q = fmt_in.p * q2
                => fmt_out = multiple_formatter(d, p2, q2, latex_pi)

\* x = -3 pi / 4 on sixths: -4.5 is rounded to the even -4 and reduced to -2/3
C6_MinusTwoThirds ==
    /\ fmt_in.called
    /\ fmt_in.denominator = 6
    /\ fmt_in.p = -3
    /\ fmt_in.q = 4
    /\ fmt_out = "$-\\frac{2\\pi}{3}$"

(***************************************************************************)
(*                     Properties of the label embedder                    *)
(***************************************************************************)

Titled(ax, which) == ax.label[which].text # ""

\* the visible tick labels of an axis: tick within the limits, text not empty
VisibleLabels(ax, which) ==
    { ax.ticklabels[which][i] : i \in
        { j \in 1..Len(ax.ticks[which]) :
            /\ in_limits(ax.ticks[which][j], ax.lim[which])
            /\ ax.ticklabels[which][j].text # "" } }

Visible(ax, which) == Cardinality(VisibleLabels(ax, which))

\* the visible label at the largest tick position, and the one before it
LastVisible(ax, which) ==
    CHOOSE l \in VisibleLabels(ax, which) :
        \A m \in VisibleLabels(ax, which) : m.pos <= l.pos

PrevVisible(ax, which) ==
    CHOOSE l \in VisibleLabels(ax, which) \ {LastVisible(ax, which)} :
        \A m \in VisibleLabels(ax, which) \ {LastVisible(ax, which)} :
            m.pos <= l.pos

Recognised(op) ==
    IF op.which = "x" THEN op.align \in {"top", "center", "bottom"}
    ELSE op.align \in {"left", "center", "right"}

Embedded == eop.name # "none"

C8_SingleLabelExtended ==
    (Embedded /\ Titled(epre, eop.which) /\ Visible(epre, eop.which) = 1
              /\ Recognised(eop))
    => /\ eerr = "none"
       /\ axis.label[eop.which].coords.set

C12_NoErrorFromTimer ==
    lab.called => lab.cberr = "none"

FlagFits(opt, n) == opt.kind = "scalar" \/ Len(opt.v) = n
AlignFits(opt, n) == opt.kind = "none" \/ Len(opt.v) = 1 \/ Len(opt.v) = n

\* what option `opt` says for axis i of n
FlagFor(opt, i) == IF opt.kind = "scalar" THEN opt.v[1] ELSE opt.v[i]
AlignFor(opt, i, default) ==
    IF opt.kind = "none" THEN default
    ELSE IF Len(opt.v) = 1 THEN opt.v[1] ELSE opt.v[i]

\* C13: for embed_labels over N axes a single value is broadcast to all N
\* axes and a sequence of length N is used as it is; a sequence of length 1
\* given for xva or yha is broadcast as well.  Every other length raises
\* (AssertionError for the flags, ValueError for the alignments) before a
\* timer or handler exists and before any axis is modified.
C13_OptionShapes ==
    lab.called
    => LET n == Len(lab.given)
           a == lab.args
       IN IF ~AlignFits(a.xva, n) \/ ~AlignFits(a.yha, n)
          THEN /\ lab.err = "ValueError"
               /\ lab.timer = "none" /\ lab.handlers = {}
               /\ lab.axes = lab.given /\ lab.passes = 0
          ELSE IF \/ ~FlagFits(a.set_captions, n)
                  \/ ~FlagFits(a.embed_xlabels, n)
                  \/ ~FlagFits(a.embed_ylabels, n)
          THEN /\ lab.err = "AssertionError"
               /\ lab.timer = "none" /\ lab.handlers = {}
               /\ lab.axes = lab.given /\ lab.passes = 0
          ELSE /\ lab.err = "none"
               /\ lab.opts.set_captions = [i \in 1..n |-> FlagFor(a.set_captions, i)]
               /\ lab.opts.embed_xlabels = [i \in 1..n |-> FlagFor(a.embed_xlabels, i)]
               /\ lab.opts.embed_ylabels = [i \in 1..n |-> FlagFor(a.embed_ylabels, i)]
               /\ lab.opts.xva = [i \in 1..n |-> AlignFor(a.xva, i, "top")]
               /\ lab.opts.yha = [i \in 1..n |-> AlignFor(a.yha, i, "center")]

\* xva=['bottom'] was accepted for three axes and broadcast to each
C13_OneElementListBroadcast ==
    /\ lab.called
    /\ Len(lab.given) = 3
    /\ lab.args.xva = List(<<"bottom">>)
    /\ lab.err = "none"
    /\ lab.opts.xva = <<"bottom", "bottom", "bottom">>

WrongLength(opt, n) == opt.kind = "list" /\ Len(opt.v) # n

\* C13 as stated: an option given as a sequence whose length is not N raises.
C13_WrongLengthRaises ==
    (/\ lab.called
     /\ \/ WrongLength(lab.args.set_captions, Len(lab.given))
        \/ WrongLength(lab.args.embed_xlabels, Len(lab.given))
        \/ WrongLength(lab.args.embed_ylabels, Len(lab.given))
        \/ WrongLength(lab.args.xva, Len(lab.given))
        \/ WrongLength(lab.args.yha, Len(lab.given)))
    => lab.err # "none"

\* the exception an embedder call raises, by the state of the axis
ExpectedError(ax, which, align) ==
    IF Visible(ax, which) >= 2
    THEN IF Recognised([which |-> which, align |-> align]) THEN "none"
         ELSE "ValueError"
    ELSE IF Titled(ax, which) /\ Visible(ax, which) = 0 THEN "IndexError"
    ELSE "none"

\* the first update pass gets past the embed_xlabel call of axis i
XLabelReached(i) ==
    /\ \A j \in 1..(i - 1) :
         /\ lab.opts.embed_xlabels[j]
            => ExpectedError(lab.given[j], "x", lab.opts.xva[j]) = "none"
         /\ lab.opts.embed_ylabels[j]
            => ExpectedError(lab.given[j], "y", lab.opts.yha[j]) = "none"
    /\ ExpectedError(lab.given[i], "x", lab.opts.xva[i]) = "none"

FlaggedBefore(i) ==
    Cardinality({ j \in 1..(i - 1) : lab.opts.set_captions[j] })

C15_Idempotent ==
    (lab.called /\ lab.passes >= 1) => lab.axes = lab.first

\* C16: the redraw at the end of an update pass starts no further pass: the
\* handler is not connected to the draw event, every pass but the first
\* follows a user event, and without user events the timer is idle after
\* exactly one pass.
C16_NoSelfTrigger ==
    (lab.called /\ lab.err = "none")
    => /\ "draw_event" \notin lab.handlers
       /\ lab.passes <= lab.events + 1
       /\ lab.events = 0 => (lab.passes = 1 <=> lab.timer = "idle")
       /\ lab.draws <= lab.passes

\* the first pass ran, redrew the canvas, and left the timer idle
C16_QuiescentAfterOnePass ==
    /\ lab.called
    /\ lab.events = 0
    /\ lab.passes = 1
    /\ lab.draws = 1
    /\ lab.timer = "idle"

(***************************************************************************)
(*                Properties of annotate_points and draw_bbox              *)
(***************************************************************************)

\* C17 as stated: for every point cloud and yoffset > 0 the text is placed
\* above max-y when TextBelow is false and below min-y when it is true.
C17_AboveOrBelow ==
    (ann.called /\ ann.op = "annotate_points" /\ ann.err = "none")
    => /\ Len(ann.ax.texts) = 1
       /\ IF ann.TextBelow
          THEN RLt(ann.ax.texts[1].y, R(np_min(ann.y)))
          ELSE RLt(R(np_max(ann.y)), ann.ax.texts[1].y)

\* C18 as stated: with 0 or 1 point draw_bbox returns without a rectangle and
\* without raising.
C18_FewPointsSkipped ==
    (ann.called /\ ann.op = "draw_bbox" /\ Len(ann.x) < 2)
    => /\ ann.err = "none"
       /\ ann.ax.patches = <<>>

\* the paddings of a drawn rectangle along one dimension satisfy the
\* log-symmetry relation for the extremes vmin, vmax and the buffer
LogSymmetric(lo, extent, vmin, vmax, buffer) ==
    LET L == RSub(R(vmin), lo)
        P == RSub(RAdd(lo, extent), R(vmax))
    IN /\ L = RMul(buffer, R(vmin))
       /\ P = RDiv(RMul(R(vmax), L), RSub(R(vmin), L))
       /\ RMul(RAdd(R(vmax), P), RSub(R(vmin), L)) = R(vmax * vmin)
       /\ RLt(lo, R(vmin))
       /\ RLt(R(vmax), RAdd(lo, extent))

\* C19: on a logarithmic axis with positive data and a buffer in (0,1) the
\* rectangle draw_bbox adds spans [xmin - L, xmax + R] with L = buffer*xmin
\* and R = xmax*L/(xmin - L), so (xmax + R)*(xmin - L) = xmax*xmin and every
\* point lies inside; the same holds for y on a logarithmic y axis.
C19_LogSymmetricPadding ==
    (ann.called /\ ann.op = "draw_bbox" /\ Len(ann.x) >= 2)
    => /\ ann.err = "none"
       /\ Len(ann.ax.patches) = 1
       /\ ann.ax.xscale = "log"
          => LogSymmetric(ann.ax.patches[1].x, ann.ax.patches[1].width,
                          np_min(ann.x), np_max(ann.x), ann.xbuffer)
       /\ ann.ax.yscale = "log"
          => LogSymmetric(ann.ax.patches[1].y, ann.ax.patches[1].height,
                          np_min(ann.y), np_max(ann.y), ann.ybuffer)

\* points spanning [1, 100] on a logarithmic x axis with buffer 0.01 were
\* boxed from 0.99 to 100 / 0.99
C19_OneToHundred ==
    /\ ann.called
    /\ ann.op = "draw_bbox"
    /\ ann.x = <<1, 100>>
    /\ ann.ax.xscale = "log"
    /\ ann.xbuffer = Num(1, 100, 0)
    /\ Len(ann.ax.patches) = 1
    /\ ann.ax.patches[1].x = Num(99, 100, 0)
    /\ RAdd(ann.ax.patches[1].x, ann.ax.patches[1].width) = Num(10000, 99, 0)

(***************************************************************************)
(*                  Properties of the axis-selector operations             *)
(***************************************************************************)

\* C20 as stated: every operation taking an axis selector fails with the
\* invalid-axis error when the selector is none of the x/y forms, whatever its
\* other inputs are, an empty list of tick labels included.
C20_UnknownSelectorRefused ==
    (sel.called /\ sel.which \notin {"x", "y", "xaxis", "yaxis"})
    => sel.err = "AttributeError"

(***************************************************************************)
(*                 Properties of the labels _embed_label returns           *)
(***************************************************************************)

\* C21 as stated: every tick label _embed_label returns has non-empty text and
\* a tick position inside the visible limits (closed, with the tolerance match
\* at the boundaries), and the labels come in ascending position order, also
\* when the number of tick-label objects differs from the number of ticks.
C21_ReturnedLabelsInLimits ==
    (sel.called /\ sel.op = "_embed_label" /\ sel.err = "none")
    => /\ \A i \in 1..Len(sel.out) :
            /\ sel.out[i].text # ""
            /\ in_limits(sel.out[i].pos, <<Lim.lo, Lim.hi>>)
       /\ \A i, j \in 1..Len(sel.out) :
            i < j => sel.out[i].pos < sel.out[j].pos

(***************************************************************************)
(*                     Properties of the render precondition               *)
(***************************************************************************)

\* C22 as stated: the embedder reads window extents only after a render pass;
\* when none has happened (no renderer yet, or a host without the
\* renderer-cache query) _embed_label forces a canvas draw first.
C22_DrawnBeforeExtentsRead ==
    (eop.name # "none") => axis.rendered

(***************************************************************************)
(*                  Properties of the y-title padding re-check             *)
(***************************************************************************)

\* the first placement embed_ylabel makes: alignment and relative x
FirstYPlacement ==
    LET tl   == embed_label(epre, "y").ticklabels
        last == tl[Len(tl)].we
        xpos == IF eop.align = "left" THEN last.x0
                ELSE IF eop.align = "center"
                THEN last.x0 + (last.x1 - last.x0) \div 2
                ELSE last.x1
    IN [ha |-> IF eop.align = "left" THEN "right" ELSE eop.align,
        x  |-> [n |-> xpos - AxisBox.x0, d |-> AxisBox.x1 - AxisBox.x0]]

YTitlePlaced ==
    /\ eop.name = "embed_ylabel"
    /\ eerr = "none"
    /\ axis.label["y"].coords.set

\* C23: embed_ylabel places the y-title once and re-checks it once: a first
\* placement on the left half whose right edge plus the minimal padding passes
\* the box's left edge becomes right-aligned at -pad/width, on the right half
\* symmetrically left-aligned at 1 + pad/width, otherwise the first placement
\* is final; afterwards the title does not overlap the axis box.
C23_YTitleClearOfBox ==
    YTitlePlaced =>
    LET L     == axis.label["y"]
        F     == FirstYPlacement
        pad   == points_to_pixels(rcParams.ytick_major_pad)
        width == AxisBox.x1 - AxisBox.x0
        first == TitleExtentX(L.text, F.ha, F.x)
        final == TitleExtentX(L.text, L.ha, L.coords.x)
    IN /\ IF 2 * F.x.n < F.x.d /\ first.x1 + pad > AxisBox.x0
          THEN L.ha = "right" /\ L.coords.x = [n |-> -pad, d |-> width]
          ELSE IF 2 * F.x.n > F.x.d /\ first.x0 - pad < AxisBox.x1
          THEN L.ha = "left" /\ L.coords.x = [n |-> width + pad, d |-> width]
          ELSE L.ha = F.ha /\ L.coords.x = F.x
       /\ final.x1 <= AxisBox.x0 \/ final.x0 >= AxisBox.x1

\* a centred y-title left of the box was too close and was moved out to
\* -pad/width, right-aligned
C23_FlippedToRight ==
    /\ YTitlePlaced
    /\ eop.align = "center"
    /\ axis.label["y"].text # ""
    /\ FirstYPlacement.ha = "center"
    /\ 2 * FirstYPlacement.x.n < FirstYPlacement.x.d
    /\ axis.label["y"].ha = "right"
    /\ axis.label["y"].coords.x.n = -points_to_pixels(rcParams.ytick_major_pad)

(***************************************************************************)
(*                    Properties of the update scheduling                  *)
(***************************************************************************)

Registered == lab.called /\ lab.err = "none"

\* an event handler ran in this step
EventHandled == lab'.events > lab.events

\* an update pass ran in this step
PassRan == lab'.passes > lab.passes

LengthOf(self) == IF self.cls = "Colors" THEN self.clength ELSE self.length

\* C25 as stated: across any calls with any integer increments the sequence
\* and the stored length are never modified, prev_color leaves the counter
\* unchanged, the counter never decreases, and every call returns an element
\* of the sequence.
C25_MonotonicCounter ==
    /\ [](/\ SeqOf(cyc) = chist.seq0
          /\ LengthOf(cyc) = Len(chist.seq0))
    /\ [][cop' = "prev_color" => cyc'.ctr = cyc.ctr]_vars
    /\ [][cyc'.ctr >= cyc.ctr]_vars
    /\ [](cop \in {"get_color", "prev_color", "get_label"}
            => /\ cerr = "none"
               /\ \E k \in 1..Len(chist.seq0) : cret = chist.seq0[k])

(***************************************************************************)
(*                       Properties of add_cooldown                        *)
(***************************************************************************)

\* the calls that executed the wrapped function
Executions == { k \in 1..Len(cool.calls) : cool.calls[k].executed }

\* the executed call most recently before call k (0 if there is none)
LastExecutionBefore(k) ==
    IF \E j \in Executions : j < k
    THEN CHOOSE j \in Executions : j < k /\ \A m \in Executions : m < k => m <= j
    ELSE 0

\* C26 as stated: the first call always executes; a later call executes iff at
\* least `cooldown` has passed since the start of the most recent executed
\* call, and otherwise returns None without invoking the function and leaves
\* last_call_time unchanged; so any two executions start at least `cooldown`
\* apart.
C26_CooldownBetweenExecutions ==
    cool.wrapped =>
    /\ Len(cool.calls) >= 1 => cool.calls[1].executed
    /\ \A k \in 2..Len(cool.calls) :
         LastExecutionBefore(k) > 0
         => (cool.calls[k].executed <=>
               cool.calls[k].time - cool.calls[LastExecutionBefore(k)].time
                   >= cool.self.cooldown)
    /\ \A k \in 1..Len(cool.calls) :
         ~cool.calls[k].executed
         => /\ cool.calls[k].ret = "None"
            /\ cool.calls[k].after = cool.calls[k].before
    /\ \A j, k \in Executions :
         j < k => cool.calls[k].time - cool.calls[j].time >= cool.self.cooldown

=============================================================================
